---- MODULE Spec2Model ----
(***************************************************************************)
(* Model of the validator application's central event loop and of its      *)
(* chain-submission serializer (service/event_loop.go):                    *)
(*   eventLoop, handleSentToBabylonLoop, jurySigSubmissionLoop and         *)
(*   validatorSubmissionLoop, the channels between them, the validator     *)
(*   store they write and the reply channels of the requests.              *)
(***************************************************************************)
EXTENDS Integers, Sequences, FiniteSets, TLC

(***************************************************************************)
(* Bounds of the model.                                                    *)
(***************************************************************************)
\* number of requests issued in one run (callers and reactors together)
MaxReqs == 2
\* block heights of finality signatures are 1..MaxHeight, starting heights
\* of randomness commitments are 0..MaxHeight-1
MaxHeight == 2
\* number of randomness values of one commitment
MaxRandLen == 2
\* number of requests issued in one run of the whole application (AppSpec)
MaxAppReqs == 1
\* number of requests the jury reactor issues in one run (JurySpec)
MaxJuryReqs == 2
\* number of requests issued in one run under fair scheduling (FairSpec)
MaxLiveReqs == 1
\* numbers of pending delegations one jury tick returns in AppSpec
AppDels == {0, 1}
\* largest number of pending delegations one jury tick returns (JurySpec)
MaxDels == 2
\* capacities of the completion-event channels (0 = unbuffered)
ChanCaps == {0, 1}
\* lengths of the randomness lists of a commit request: the empty list and the
\* configured number of values
RandLens == {0, MaxRandLen}

\* uint64 arithmetic wraps modulo 2^64; the model checker's integers are 32
\* bits wide, so the modulus is scaled to 2^16 (far above every height used).
UintModulus == 2^16

\* the validator identities (consensus-chain public keys)
Pks == {1}

\* the identities a create or a register request can name in RegSpec
RegPks == {1, 2}
SerTypes == {"finalitySig", "register", "commitPubRand", "jurySig"}
ReqTypes == SerTypes \cup {"create"}

Max(a, b) == IF a > b THEN a ELSE b

(***************************************************************************)
(* Requests.  A request carries its payload; its two reply channels        *)
(* (errResponse, successResponse) are identified by the request's index in *)
(* reqs, which is also its rank in submission order.                       *)
(***************************************************************************)
\* the i-th secret / public randomness value generated for request id
PrivRand(id, i) == 10 * id + i
PubRand(id, i) == 100 + 10 * id + i

\* fr.Bytes() and MustMarshal(): the byte encodings stored in SchnorrRandPair
Bytes(pr) == <<"b", pr>>
MustMarshal(p) == <<"m", p>>

NewRequest(id, type, pk, height, k) ==
    [type |-> type, bbnPubKey |-> pk, height |-> height,
     privRandList |-> [i \in 1..k |-> PrivRand(id, i)],
     pubRandList |-> [i \in 1..k |-> PubRand(id, i)]]

(***************************************************************************)
(* The validator store (app.vs).  vs maps the stored identities to their   *)
(* records, rs maps <<identity, height>> to the stored randomness pair.    *)
(***************************************************************************)
NewValidator == [status |-> "CREATED", LastVotedHeight |-> 0, LastCommittedHeight |-> 0]

HasValidator(vs, pk) == pk \in DOMAIN vs

SaveValidator(vs, pk, val) ==
    [p \in DOMAIN vs \cup {pk} |-> IF p = pk THEN val ELSE vs[p]]

SetValidatorStatus(vs, pk, status) ==
    SaveValidator(vs, pk, [vs[pk] EXCEPT !.status = status])

SetValidatorLastVotedHeight_Unconditional(vs, pk, height) ==
    SaveValidator(vs, pk, [vs[pk] EXCEPT !.LastVotedHeight = height])

\* the height moves only forward: a lower or equal height leaves it as it is
SetValidatorLastVotedHeight(vs, pk, height) ==
    SaveValidator(vs, pk, [vs[pk] EXCEPT !.LastVotedHeight = Max(@, height)])

HasRandPair(rs, pk, height) == <<pk, height>> \in DOMAIN rs

SaveRandPair_Overwrite(rs, pk, height, pair) ==
    [ok |-> TRUE,
     rands |-> [x \in DOMAIN rs \cup {<<pk, height>>} |->
                   IF x = <<pk, height>> THEN pair ELSE rs[x]]]

\* a record is written once: saving a pair for a stored (identity, height) is
\* rejected with a storage error and leaves the record as it is
SaveRandPair(rs, pk, height, pair) ==
    IF HasRandPair(rs, pk, height)
    THEN [ok |-> FALSE, rands |-> rs]
    ELSE [ok |-> TRUE,
          rands |-> [x \in DOMAIN rs \cup {<<pk, height>>} |->
                        IF x = <<pk, height>> THEN pair ELSE rs[x]]]

(***************************************************************************)
(* The event loop's handlers as functions of the store.  failAt names the  *)
(* store write of the handler that fails with a storage error (0: none     *)
(* fails; 1: the first write; ...).  The result is the store after the     *)
(* handler, whether the handler ended in logger.Fatal, and the heights     *)
(* whose randomness pair it saved, in the order of the writes.             *)
(***************************************************************************)
Outcome(vs, rs, fatal, saved) ==
    [vals |-> vs, rands |-> rs, fatal |-> fatal, saved |-> saved]

LoggerFatal_Continue(vs, rs, saved) == Outcome(vs, rs, FALSE, saved)

\* app.logger...Fatal(...): logs and exits the process; the store keeps what
\* was written before
LoggerFatal(vs, rs, saved) == Outcome(vs, rs, TRUE, saved)

CommittedHeight_OffByOne(startingHeight, n) ==
    (startingHeight + (n % UintModulus)) % UintModulus

\* val.LastCommittedHeight = ev.startingHeight + uint64(len(ev.pubRandList)-1)
CommittedHeight(startingHeight, n) ==
    (startingHeight + ((n - 1) % UintModulus)) % UintModulus

HandleFinalitySigAdded_Direct(vs, rs, ev, failAt) ==
    IF ~HasValidator(vs, ev.bbnPubKey) THEN LoggerFatal(vs, rs, <<>>)
    ELSE IF failAt = 1 THEN LoggerFatal(vs, rs, <<>>)
    ELSE Outcome(SetValidatorLastVotedHeight_Unconditional(vs, ev.bbnPubKey, ev.height),
                 rs, FALSE, <<>>)

HandleFinalitySigAdded(vs, rs, ev, failAt) ==
    IF ~HasValidator(vs, ev.bbnPubKey) THEN LoggerFatal(vs, rs, <<>>)
    ELSE IF failAt = 1 THEN LoggerFatal(vs, rs, <<>>)
    ELSE Outcome(SetValidatorLastVotedHeight(vs, ev.bbnPubKey, ev.height),
                 rs, FALSE, <<>>)

HandleValidatorRegistered_All(vs, rs, ev, failAt) ==
    IF ~HasValidator(vs, ev.bbnPubKey) THEN LoggerFatal(vs, rs, <<>>)
    ELSE IF failAt = 1 THEN LoggerFatal(vs, rs, <<>>)
    ELSE Outcome([pk \in DOMAIN vs |-> [vs[pk] EXCEPT !.status = "REGISTERED"]],
                 rs, FALSE, <<>>)

HandleValidatorRegistered(vs, rs, ev, failAt) ==
    IF ~HasValidator(vs, ev.bbnPubKey) THEN LoggerFatal(vs, rs, <<>>)
    ELSE IF failAt = 1 THEN LoggerFatal(vs, rs, <<>>)
    ELSE Outcome(SetValidatorStatus(vs, ev.bbnPubKey, "REGISTERED"), rs, FALSE, <<>>)

RECURSIVE SaveRandLoop_SkipFailed(_, _, _, _, _, _)
SaveRandLoop_SkipFailed(vs, rs, ev, i, failAt, saved) ==
    IF i > Len(ev.privRandList) THEN Outcome(vs, rs, FALSE, saved)
    ELSE LET height == (ev.height + (i - 1)) % UintModulus
             randPair == [SecRand |-> Bytes(ev.privRandList[i]),
                          PubRand |-> MustMarshal(ev.pubRandList[i])]
             res == SaveRandPair(rs, ev.bbnPubKey, height, randPair)
         IN  IF failAt = i + 1 \/ ~res.ok
             THEN SaveRandLoop_SkipFailed(vs, rs, ev, i + 1, failAt, saved)
             ELSE SaveRandLoop_SkipFailed(vs, res.rands, ev, i + 1, failAt,
                                          Append(saved, height))

\* for i, pr := range ev.privRandList { ... SaveRandPair ... }, from index i
\* (1-based here) on; the write of index i is write number i + 1 of the handler
RECURSIVE SaveRandLoop(_, _, _, _, _, _)
SaveRandLoop(vs, rs, ev, i, failAt, saved) ==
    IF i > Len(ev.privRandList) THEN Outcome(vs, rs, FALSE, saved)
    ELSE LET height == (ev.height + (i - 1)) % UintModulus
             randPair == [SecRand |-> Bytes(ev.privRandList[i]),
                          PubRand |-> MustMarshal(ev.pubRandList[i])]
             res == SaveRandPair(rs, ev.bbnPubKey, height, randPair)
         IN  IF failAt = i + 1 \/ ~res.ok THEN LoggerFatal(vs, rs, saved)
             ELSE SaveRandLoop(vs, res.rands, ev, i + 1, failAt, Append(saved, height))

HandlePubRandCommitted(vs, rs, ev, failAt) ==
    IF ~HasValidator(vs, ev.bbnPubKey) THEN LoggerFatal(vs, rs, <<>>)
    ELSE IF failAt = 1 THEN LoggerFatal(vs, rs, <<>>)
    ELSE LET val == [vs[ev.bbnPubKey] EXCEPT !.LastCommittedHeight =
                         CommittedHeight(ev.height, Len(ev.pubRandList))]
         IN  SaveRandLoop(SaveValidator(vs, ev.bbnPubKey, val), rs, ev, 1, failAt, <<>>)

HandleJurySigAdded_Activates(vs, rs, ev, failAt) ==
    IF HasValidator(vs, ev.bbnPubKey)
    THEN Outcome(SetValidatorStatus(vs, ev.bbnPubKey, "ACTIVE"), rs, FALSE, <<>>)
    ELSE Outcome(vs, rs, FALSE, <<>>)

HandleJurySigAdded(vs, rs, ev, failAt) == Outcome(vs, rs, FALSE, <<>>)

Handle(vs, rs, ev, failAt) ==
    CASE ev.type = "finalitySig" -> HandleFinalitySigAdded(vs, rs, ev, failAt)
      [] ev.type = "register" -> HandleValidatorRegistered(vs, rs, ev, failAt)
      [] ev.type = "commitPubRand" -> HandlePubRandCommitted(vs, rs, ev, failAt)
      [] ev.type = "jurySig" -> HandleJurySigAdded(vs, rs, ev, failAt)

\* number of store writes a handler attempts for an event
NumWrites(ev) ==
    CASE ev.type = "commitPubRand" -> 1 + Len(ev.privRandList)
      [] ev.type = "jurySig" -> 0
      [] OTHER -> 1

(***************************************************************************)
(* State.                                                                  *)
(***************************************************************************)
VARIABLES
    reqs,            \* the requests issued so far, in submission order
    budget,          \* how many more requests this run may issue
    chans,           \* per request type: the requests waiting on its channel
    serPc,           \* handleSentToBabylonLoop: "select", "call", "emit", "exited"
    serReq,          \* the request the serializer is serving (0: none)
    serTx,           \* the transaction hash its chain call returned
    evChan,          \* per type: the completion events buffered on its channel
    evCap,           \* capacity of the completion-event channels
    evPc,            \* eventLoop: "select" or "exited"
    vals,            \* validator store: identity -> validator record
    rands,           \* validator store: <<identity, height>> -> randomness pair
    halted,          \* the process exited through logger.Fatal
    quit,            \* app.quit is closed
    errResponse,     \* per request: number of errors written to its errResponse
    successResponse, \* per request: the responses written to its successResponse
    chainCalls,      \* the requests whose chain call was made, in call order
    lastEvent,       \* what the event loop did with the last completion event
    juryPc,          \* jurySigSubmissionLoop: "select", "fetch", "failed", "loop", "wait", "exited"
    juryDels,        \* number of pending delegations fetched in this tick
    juryLeft,        \* pending delegations of this tick not yet attempted
    juryReq,         \* the request whose reply the jury reactor waits for (0: none)
    valPc,           \* validatorSubmissionLoop: "select", "getblock", "loop", "wait", "exited"
    valKind,         \* what the validator reactor submits in this round
    valHeight,       \* the block height of this round
    valTodo,         \* the managed validators not yet served in this round
    valReq           \* the request whose reply the validator reactor waits for (0: none)

coreVars == <<reqs, budget, chans, serPc, serReq, serTx, evChan, evCap, evPc,
              vals, rands, halted, quit, errResponse, successResponse,
              chainCalls, lastEvent>>

juryVars == <<juryPc, juryLeft, juryReq, juryDels>>

valVars == <<valPc, valKind, valHeight, valTodo, valReq>>

vars == <<coreVars, juryVars, valVars>>

NoEvent == [req |-> 0, type |-> "none", failAt |-> 0, fatal |-> FALSE, saved |-> <<>>]

InitWith(n) ==
    /\ reqs = <<>>
    /\ budget = n
    /\ chans = [t \in ReqTypes |-> <<>>]
    /\ serPc = "select"
    /\ serReq = 0
    /\ serTx = 0
    /\ evChan = [t \in SerTypes |-> <<>>]
    /\ evCap \in ChanCaps
    /\ evPc = "select"
    /\ vals \in {<<>>, [p \in Pks |-> NewValidator]}
    /\ rands = <<>>
    /\ halted = FALSE
    /\ quit = FALSE
    /\ errResponse = [i \in 1..MaxReqs |-> 0]
    /\ successResponse = [i \in 1..MaxReqs |-> <<>>]
    /\ chainCalls = <<>>
    /\ lastEvent = NoEvent
    /\ juryPc = "select"
    /\ juryDels = 0
    /\ juryLeft = 0
    /\ juryReq = 0
    /\ valPc = "select"
    /\ valKind = "none"
    /\ valHeight = 0
    /\ valTodo = {}
    /\ valReq = 0

(***************************************************************************)
(* Callers.  A caller builds a request and sends it on the channel of its  *)
(* type; senders blocked on one channel are served in the order they came. *)
(***************************************************************************)
ParamsOf(type) ==
    CASE type = "create" -> {<<pk, 0, 0>> : pk \in Pks}
      [] type = "register" -> {<<pk, 0, 0>> : pk \in Pks}
      [] type = "finalitySig" -> {<<pk, h, 0>> : pk \in Pks, h \in 1..MaxHeight}
      [] type = "commitPubRand" ->
            {<<pk, h, k>> : pk \in Pks, h \in 0..(MaxHeight - 1), k \in RandLens}
      [] type = "jurySig" -> {<<1, 0, 0>>}

Enqueue(type, pk, height, k) ==
    LET id == Len(reqs) + 1
    IN  /\ budget > 0
        /\ budget' = budget - 1
        /\ reqs' = Append(reqs, NewRequest(id, type, pk, height, k))
        /\ chans' = [chans EXCEPT ![type] = Append(@, id)]

Submit ==
    /\ ~halted
    /\ \E type \in ReqTypes : \E p \in ParamsOf(type) :
          Enqueue(type, p[1], p[2], p[3])
    /\ UNCHANGED <<serPc, serReq, serTx, evChan, evCap, evPc, vals, rands, halted,
                   quit, errResponse, successResponse, chainCalls, lastEvent,
                   juryVars, valVars>>

(***************************************************************************)
(* handleSentToBabylonLoop.                                                *)
(***************************************************************************)
\* case req := <-app.<type>RequestChan: a receive takes the oldest waiting request
Receive_Newest(q) == [req |-> q[Len(q)], rest |-> SubSeq(q, 1, Len(q) - 1)]

Receive(q) == [req |-> Head(q), rest |-> Tail(q)]

\* what a case of the loop does once the chain call has returned: on an error
\* the error reply and `continue`, else the completion event
AfterChainCall_NoContinue(failed) == [replyErr |-> failed, next |-> "emit"]

AfterChainCall_Return(failed) ==
    [replyErr |-> failed, next |-> IF failed THEN "exited" ELSE "emit"]

AfterChainCall_NoReply(failed) ==
    [replyErr |-> FALSE, next |-> IF failed THEN "select" ELSE "emit"]

AfterChainCall_DropEvent(failed) == [replyErr |-> failed, next |-> "select"]

AfterChainCall(failed) ==
    [replyErr |-> failed, next |-> IF failed THEN "select" ELSE "emit"]

SerStore_Registers(vs, req, failed) ==
    IF ~failed /\ req.type = "register" /\ HasValidator(vs, req.bbnPubKey)
    THEN SetValidatorStatus(vs, req.bbnPubKey, "REGISTERED")
    ELSE vs

\* the validator records after a case of the loop: the loop has no access to
\* app.vs, whatever the request and the result of its chain call
SerStore(vs, req, failed) == vs

\* case req := <-app.<type>RequestChan: the chain call starts
SerRecv(t) ==
    /\ ~halted
    /\ serPc = "select"
    /\ chans[t] # <<>>
    /\ serReq' = Receive(chans[t]).req
    /\ chans' = [chans EXCEPT ![t] = Receive(chans[t]).rest]
    /\ chainCalls' = Append(chainCalls, Receive(chans[t]).req)
    /\ serPc' = "call"
    /\ UNCHANGED <<reqs, budget, serTx, evChan, evCap, evPc, vals, rands, halted,
                   quit, errResponse, successResponse, lastEvent,
                   juryVars, valVars>>

\* txHash, err := app.bc.<call>(...); if err != nil { req.errResponse <- err; continue }
SerCallReturn(failed) ==
    LET after == AfterChainCall(failed)
    IN  /\ ~halted
        /\ serPc = "call"
        /\ serTx' = IF failed THEN 0 ELSE Len(chainCalls)
        /\ errResponse' = IF after.replyErr
                            THEN [errResponse EXCEPT ![serReq] = @ + 1]
                            ELSE errResponse
        /\ serPc' = after.next
        /\ serReq' = IF after.next = "emit" THEN serReq ELSE 0
        /\ vals' = SerStore(vals, reqs[serReq], failed)
        /\ UNCHANGED <<reqs, budget, chans, evChan, evCap, evPc, rands, halted,
                       quit, successResponse, chainCalls, lastEvent,
                   juryVars, valVars>>

SerEvent_FirstSlot ==
    [type |-> reqs[serReq].type, req |-> chainCalls[1],
     bbnPubKey |-> reqs[serReq].bbnPubKey, height |-> reqs[serReq].height,
     privRandList |-> reqs[serReq].privRandList,
     pubRandList |-> reqs[serReq].pubRandList, txHash |-> serTx]

\* the completion event the serializer has in hand
SerEvent ==
    [type |-> reqs[serReq].type, req |-> serReq,
     bbnPubKey |-> reqs[serReq].bbnPubKey, height |-> reqs[serReq].height,
     privRandList |-> reqs[serReq].privRandList,
     pubRandList |-> reqs[serReq].pubRandList, txHash |-> serTx]

\* app.<type>EventChan <- &event{...}: completes at once when the channel has room
SerEmit ==
    /\ ~halted
    /\ serPc = "emit"
    /\ Len(evChan[SerEvent.type]) < evCap
    /\ evChan' = [evChan EXCEPT ![SerEvent.type] = Append(@, SerEvent)]
    /\ serPc' = "select"
    /\ serReq' = 0
    /\ UNCHANGED <<reqs, budget, chans, serTx, evCap, evPc, vals, rands, halted,
                   quit, errResponse, successResponse, chainCalls, lastEvent,
                   juryVars, valVars>>

\* case <-app.quit: return
SerQuit ==
    /\ ~halted
    /\ serPc = "select"
    /\ quit
    /\ serPc' = "exited"
    /\ UNCHANGED <<reqs, budget, chans, serReq, serTx, evChan, evCap, evPc, vals,
                   rands, halted, quit, errResponse, successResponse, chainCalls,
                   lastEvent,
                   juryVars, valVars>>

(***************************************************************************)
(* eventLoop.                                                              *)
(***************************************************************************)
\* handleCreateValidatorRequest: a new validator with status CREATED, or a
\* validation error for an identity that is stored already
HandleCreateValidatorRequest(vs, req) ==
    IF HasValidator(vs, req.bbnPubKey)
    THEN [vals |-> vs, err |-> TRUE]
    ELSE [vals |-> SaveValidator(vs, req.bbnPubKey, NewValidator), err |-> FALSE]

\* case req := <-app.createValidatorRequestChan
EvCreate ==
    /\ ~halted
    /\ evPc = "select"
    /\ chans["create"] # <<>>
    /\ LET id == Head(chans["create"])
           res == HandleCreateValidatorRequest(vals, reqs[id])
       IN  /\ vals' = res.vals
           /\ errResponse' = IF res.err THEN [errResponse EXCEPT ![id] = @ + 1]
                               ELSE errResponse
           /\ successResponse' = IF res.err THEN successResponse
                                   ELSE [successResponse EXCEPT ![id] = Append(@, 0)]
    /\ chans' = [chans EXCEPT !["create"] = Tail(@)]
    /\ UNCHANGED <<reqs, budget, serPc, serReq, serTx, evChan, evCap, evPc, rands,
                   halted, quit, chainCalls, lastEvent,
                   juryVars, valVars>>

\* a receive on an event channel takes the oldest buffered event, or, when the
\* buffer is empty, the event of the serializer blocked in its send
HandOff(t) == evChan[t] = <<>> /\ serPc = "emit" /\ SerEvent.type = t

EventReady(t) == evChan[t] # <<>> \/ HandOff(t)

NextEvent_Newest(t) ==
    IF serPc = "emit" /\ SerEvent.type = t THEN SerEvent ELSE Head(evChan[t])

NextEvent(t) == IF evChan[t] # <<>> THEN Head(evChan[t]) ELSE SerEvent

\* case ev := <-app.<type>EventChan: the whole case, its store writes and its reply
EvHandle(t) ==
    /\ ~halted
    /\ evPc = "select"
    /\ EventReady(t)
    /\ LET ev == NextEvent(t)
       IN  \E failAt \in 0..NumWrites(ev) :
             LET out == Handle(vals, rands, ev, failAt)
             IN  /\ vals' = out.vals
                 /\ rands' = out.rands
                 /\ halted' = out.fatal
                 /\ successResponse' =
                       IF out.fatal THEN successResponse
                       ELSE [successResponse EXCEPT ![ev.req] = Append(@, ev.txHash)]
                 /\ lastEvent' = [req |-> ev.req, type |-> t, failAt |-> failAt,
                                  fatal |-> out.fatal, saved |-> out.saved]
    /\ IF HandOff(t)
       THEN serPc' = "select" /\ serReq' = 0 /\ evChan' = evChan
       ELSE evChan' = [evChan EXCEPT ![t] = Tail(@)] /\ UNCHANGED <<serPc, serReq>>
    /\ UNCHANGED <<reqs, budget, chans, serTx, evCap, evPc, quit, errResponse,
                   chainCalls,
                   juryVars, valVars>>

\* case <-app.quit: return
EvQuit ==
    /\ ~halted
    /\ evPc = "select"
    /\ quit
    /\ evPc' = "exited"
    /\ UNCHANGED <<reqs, budget, chans, serPc, serReq, serTx, evChan, evCap, vals,
                   rands, halted, quit, errResponse, successResponse, chainCalls,
                   lastEvent,
                   juryVars, valVars>>

\* the shutdown signal: close(app.quit)
Quit ==
    /\ ~halted
    /\ ~quit
    /\ quit' = TRUE
    /\ UNCHANGED <<reqs, budget, chans, serPc, serReq, serTx, evChan, evCap, evPc,
                   vals, rands, halted, errResponse, successResponse, chainCalls,
                   lastEvent,
                   juryVars, valVars>>

(***************************************************************************)
(* The callers' side of a request issued by a reactor: AddJurySignature,   *)
(* SubmitFinalitySignaturesForAll and CommitPubRandForAll send the request *)
(* and wait for its reply or for the shutdown signal.                      *)
(***************************************************************************)
Replied(id) == errResponse[id] > 0 \/ successResponse[id] # <<>>

(***************************************************************************)
(* jurySigSubmissionLoop.                                                  *)
(***************************************************************************)
\* case <-jurySigTicker.C
JuryTick ==
    /\ ~halted
    /\ juryPc = "select"
    /\ juryPc' = "fetch"
    /\ UNCHANGED <<coreVars, juryLeft, juryReq, juryDels, valVars>>

\* dels, err := app.getPendingDelegationsForAll()
JuryFetch(failed, n) ==
    /\ ~halted
    /\ juryPc = "fetch"
    /\ juryDels' = IF failed THEN 0 ELSE n
    /\ juryLeft' = IF failed THEN 0 ELSE n
    /\ juryPc' = IF failed THEN "failed" ELSE IF n = 0 THEN "select" ELSE "loop"
    /\ UNCHANGED <<coreVars, juryReq, valVars>>

\* if err != nil { app.logger.WithFields(...).Error(...); continue }
JuryFetchFailed ==
    /\ ~halted
    /\ juryPc = "failed"
    /\ juryPc' = "select"
    /\ UNCHANGED <<coreVars, juryLeft, juryReq, juryDels, valVars>>

AfterAdd_Break(left, failed) == IF failed THEN 0 ELSE left - 1

\* for _, d := range dels: the delegations left once the attempt for d is
\* over; an error of the attempt is logged and the range goes on
AfterAdd(left, failed) == left - 1

\* _, err := app.AddJurySignature(d): the signing fails and no request is sent
JuryAddFails ==
    /\ ~halted
    /\ juryPc = "loop"
    /\ juryLeft' = AfterAdd(juryLeft, TRUE)
    /\ juryPc' = IF juryLeft' = 0 THEN "select" ELSE "loop"
    /\ juryDels' = IF juryLeft' = 0 THEN 0 ELSE juryDels
    /\ UNCHANGED <<coreVars, juryReq, valVars>>

\* _, err := app.AddJurySignature(d): the request goes to the serializer
JuryAddSends ==
    /\ ~halted
    /\ juryPc = "loop"
    /\ Enqueue("jurySig", 1, 0, 0)
    /\ juryReq' = Len(reqs) + 1
    /\ juryPc' = "wait"
    /\ UNCHANGED <<serPc, serReq, serTx, evChan, evCap, evPc, vals, rands, halted,
                   quit, errResponse, successResponse, chainCalls, lastEvent,
                   juryLeft, juryDels, valVars>>

\* AddJurySignature returns with the reply (an error is logged) or on shutdown
JuryAddReturns ==
    /\ ~halted
    /\ juryPc = "wait"
    /\ Replied(juryReq) \/ quit
    /\ juryReq' = 0
    /\ juryLeft' = AfterAdd(juryLeft, successResponse[juryReq] = <<>>)
    /\ juryPc' = IF juryLeft' = 0 THEN "select" ELSE "loop"
    /\ juryDels' = IF juryLeft' = 0 THEN 0 ELSE juryDels
    /\ UNCHANGED <<coreVars, valVars>>

\* case <-app.quit: return
JuryQuit ==
    /\ ~halted
    /\ juryPc = "select"
    /\ quit
    /\ juryPc' = "exited"
    /\ UNCHANGED <<coreVars, juryLeft, juryReq, juryDels, valVars>>

\* one step of the loop when a tick returns a number of delegations of dels
JuryLoop(dels) ==
    \/ JuryTick
    \/ \E failed \in BOOLEAN : \E n \in dels : JuryFetch(failed, n)
    \/ JuryFetchFailed
    \/ JuryAddFails
    \/ JuryAddSends
    \/ JuryAddReturns
    \/ JuryQuit

JuryNext == JuryLoop(AppDels)

(***************************************************************************)
(* validatorSubmissionLoop.                                                *)
(***************************************************************************)
\* case b := <-app.poller.GetBlockInfoChan(): SubmitFinalitySignaturesForAll(b);
\* valKind and valHeight are locals of a round and are cleared when it ends
ValBlock(h) ==
    /\ ~halted
    /\ valPc = "select"
    /\ IF DOMAIN vals = {}
       THEN UNCHANGED <<valPc, valKind, valHeight, valTodo>>
       ELSE /\ valKind' = "finalitySig"
            /\ valHeight' = h
            /\ valTodo' = DOMAIN vals
            /\ valPc' = "loop"
    /\ UNCHANGED <<coreVars, juryVars, valReq>>

\* case <-commitRandTicker.C
ValCommitTick ==
    /\ ~halted
    /\ valPc = "select"
    /\ valPc' = "getblock"
    /\ UNCHANGED <<coreVars, juryVars, valKind, valHeight, valTodo, valReq>>

\* lastBlock, err := app.GetCurrentBbnBlock(); an error is fatal
ValGetBlock(failed, h) ==
    /\ ~halted
    /\ valPc = "getblock"
    /\ IF failed
       THEN /\ halted' = TRUE
            /\ UNCHANGED <<valPc, valKind, valHeight, valTodo>>
       ELSE /\ halted' = halted
            /\ valKind' = IF DOMAIN vals = {} THEN "none" ELSE "commitPubRand"
            /\ valHeight' = IF DOMAIN vals = {} THEN 0 ELSE h
            /\ valTodo' = DOMAIN vals
            /\ valPc' = IF DOMAIN vals = {} THEN "select" ELSE "loop"
    /\ UNCHANGED <<reqs, budget, chans, serPc, serReq, serTx, evChan, evCap, evPc,
                   vals, rands, quit, errResponse, successResponse, chainCalls,
                   lastEvent, juryVars, valReq>>

NextTodo == CHOOSE pk \in valTodo : \A q \in valTodo : pk <= q

AfterTodo == IF valTodo = {NextTodo} THEN "select" ELSE "loop"

\* the ...ForAll call fails before a request is sent: the round ends, logged
ValSubmitFails ==
    /\ ~halted
    /\ valPc = "loop"
    /\ valTodo' = {}
    /\ valKind' = "none"
    /\ valHeight' = 0
    /\ valPc' = "select"
    /\ UNCHANGED <<coreVars, juryVars, valReq>>

\* the ...ForAll call sends the request of the next managed validator
ValSubmitSends ==
    /\ ~halted
    /\ valPc = "loop"
    /\ Enqueue(valKind, NextTodo, valHeight,
               IF valKind = "commitPubRand" THEN MaxRandLen ELSE 0)
    /\ valReq' = Len(reqs) + 1
    /\ valPc' = "wait"
    /\ UNCHANGED <<serPc, serReq, serTx, evChan, evCap, evPc, vals, rands, halted,
                   quit, errResponse, successResponse, chainCalls, lastEvent,
                   juryVars, valKind, valHeight, valTodo>>

\* the reply arrives (or the shutdown signal): on to the next validator
ValSubmitReturns ==
    /\ ~halted
    /\ valPc = "wait"
    /\ Replied(valReq) \/ quit
    /\ valReq' = 0
    /\ valTodo' = valTodo \ {NextTodo}
    /\ valPc' = AfterTodo
    /\ valKind' = IF AfterTodo = "select" THEN "none" ELSE valKind
    /\ valHeight' = IF AfterTodo = "select" THEN 0 ELSE valHeight
    /\ UNCHANGED <<coreVars, juryVars>>

\* case <-app.quit: return
ValQuit ==
    /\ ~halted
    /\ valPc = "select"
    /\ quit
    /\ valPc' = "exited"
    /\ UNCHANGED <<coreVars, juryVars, valKind, valHeight, valTodo, valReq>>

ValNext ==
    \/ \E h \in 1..MaxHeight : ValBlock(h)
    \/ ValCommitTick
    \/ \E failed \in BOOLEAN : \E h \in 0..(MaxHeight - 1) : ValGetBlock(failed, h)
    \/ ValSubmitFails
    \/ ValSubmitSends
    \/ ValSubmitReturns
    \/ ValQuit

SerNext ==
    \/ \E t \in SerTypes : SerRecv(t)
    \/ \E failed \in BOOLEAN : SerCallReturn(failed)
    \/ SerEmit
    \/ SerQuit

EvNext ==
    \/ EvCreate
    \/ \E t \in SerTypes : EvHandle(t)
    \/ EvQuit

(***************************************************************************)
(* Spec: the callers, the serializer and the event loop.  Every request a  *)
(* reactor issues reaches the serializer as a send on a request channel,   *)
(* which Submit covers.                                                    *)
(***************************************************************************)
Init == InitWith(MaxReqs)

Next ==
    \/ Submit
    \/ SerNext
    \/ EvNext
    \/ Quit

Spec == Init /\ [][Next]_vars

(***************************************************************************)
(* RegSpec: the same two tasks with callers that create and register       *)
(* validators of two identities.                                           *)
(***************************************************************************)
SubmitRegistration ==
    /\ ~halted
    /\ \E type \in {"create", "register"} : \E pk \in RegPks :
          Enqueue(type, pk, 0, 0)
    /\ UNCHANGED <<serPc, serReq, serTx, evChan, evCap, evPc, vals, rands, halted,
                   quit, errResponse, successResponse, chainCalls, lastEvent,
                   juryVars, valVars>>

RegNext ==
    \/ SubmitRegistration
    \/ SerNext
    \/ EvNext
    \/ Quit

RegSpec == Init /\ [][RegNext]_vars

(***************************************************************************)
(* JurySpec: the jury reactor with the serializer and the event loop, with *)
(* ticks that return several pending delegations, next to callers that     *)
(* create and register validators.                                         *)
(***************************************************************************)
JuryInit == InitWith(MaxJuryReqs)

JurySpecNext ==
    \/ SubmitRegistration
    \/ JuryLoop(0..MaxDels)
    \/ SerNext
    \/ EvNext
    \/ Quit

JurySpec == JuryInit /\ [][JurySpecNext]_vars

(***************************************************************************)
(* AppSpec: the four tasks of the application together.                    *)
(***************************************************************************)
AppInit == InitWith(MaxAppReqs)

AppNext ==
    \/ Submit
    \/ SerNext
    \/ EvNext
    \/ JuryNext
    \/ ValNext
    \/ Quit

AppSpec == AppInit /\ [][AppNext]_vars

(***************************************************************************)
(* FairAppSpec: the scheduling of the four tasks.  A task that can take a  *)
(* step takes one, and a select that finds app.quit closed again and again *)
(* chooses that case in the end (select picks among its ready cases at     *)
(* random).  Callers and the shutdown signal are under no obligation.      *)
(***************************************************************************)
FairAppSpec ==
    /\ AppSpec
    /\ WF_vars(SerNext) /\ WF_vars(EvNext) /\ WF_vars(JuryNext) /\ WF_vars(ValNext)
    /\ SF_vars(SerQuit) /\ SF_vars(EvQuit) /\ SF_vars(JuryQuit) /\ SF_vars(ValQuit)

(***************************************************************************)
(* FairSpec: the callers, the serializer and the event loop under the same *)
(* scheduling.                                                             *)
(***************************************************************************)
LiveInit == InitWith(MaxLiveReqs)

FairSpec ==
    /\ LiveInit /\ [][Next]_vars
    /\ WF_vars(SerNext) /\ WF_vars(EvNext)
    /\ SF_vars(SerQuit) /\ SF_vars(EvQuit)

(***************************************************************************)
(* Properties.                                                             *)
(***************************************************************************)
Ids == 1..Len(reqs)

SerIds == {id \in Ids : reqs[id].type \in SerTypes}

\* the event loop handled a completion event in this step
EventStep == lastEvent' # lastEvent

C3_RandPairWrittenOnce ==
    [][\A x \in DOMAIN rands : x \in DOMAIN rands' /\ rands'[x] = rands[x]]_vars

\* a commit event was handled whose range covers a height that holds the
\* record of an earlier request
C3_Witness ==
    /\ lastEvent.type = "commitPubRand"
    /\ LET ev == reqs[lastEvent.req]
       IN  \E i \in 1..Len(ev.privRandList) :
              /\ HasRandPair(rands, ev.bbnPubKey, ev.height + i - 1)
              /\ rands[<<ev.bbnPubKey, ev.height + i - 1>>].SecRand
                    # Bytes(ev.privRandList[i])

\* C4 (as stated): every stored validator has
\* LastCommittedHeight >= LastVotedHeight.
C4_CommittedCoversVoted ==
    \A pk \in DOMAIN vals : vals[pk].LastCommittedHeight >= vals[pk].LastVotedHeight

\* C5: the two reply channels of a request receive at most one value together.
C5_ReplyAtMostOnce ==
    \A id \in 1..MaxReqs : errResponse[id] + Len(successResponse[id]) <= 1

\* the serializer answered one request with an error and the event loop
\* another with a success
C5_Witness ==
    /\ \E id \in SerIds : errResponse[id] = 1
    /\ \E id \in SerIds : Len(successResponse[id]) = 1

\* the store holds what the completion event of request id has to write
Persisted(id) ==
    LET r == reqs[id]
        pk == r.bbnPubKey
    IN  CASE r.type = "register" ->
               HasValidator(vals, pk) /\ vals[pk].status = "REGISTERED"
          [] r.type = "finalitySig" ->
               HasValidator(vals, pk) /\ vals[pk].LastVotedHeight >= r.height
          [] r.type = "commitPubRand" ->
               /\ HasValidator(vals, pk)
               /\ vals[pk].LastCommittedHeight =
                     CommittedHeight(r.height, Len(r.pubRandList))
               /\ \A i \in 1..Len(r.privRandList) :
                     HasRandPair(rands, pk, r.height + i - 1)
          [] OTHER -> TRUE

\* C6: when a success reply is written for a request that went through the
\* serializer, the event loop has just handled its completion event and the
\* store holds every write of that event.
C6_ReplyAfterWrites ==
    [][\A id \in SerIds :
          successResponse'[id] # successResponse[id] =>
              /\ lastEvent'.req = id
              /\ ~lastEvent'.fatal
              /\ Persisted(id)'
      ]_vars

C6_Witness ==
    \E id \in SerIds :
        /\ reqs[id].type = "commitPubRand"
        /\ Len(reqs[id].privRandList) >= 1
        /\ successResponse[id] # <<>>

\* a completion event of request id is in flight or was handled
EventExists(id) ==
    \/ \E t \in SerTypes : \E i \in 1..Len(evChan[t]) : evChan[t][i].req = id
    \/ serPc = "emit" /\ serReq = id
    \/ lastEvent.req = id

\* C7: a failed chain call writes the error to the request's errResponse,
\* emits no completion event, leaves the store and the waiting requests as
\* they are, and puts the serializer back at its select.
C7_ChainFailure ==
    /\ [][\A id \in SerIds :
             errResponse'[id] # errResponse[id] =>
                 /\ errResponse'[id] = 1
                 /\ evChan' = evChan
                 /\ vals' = vals /\ rands' = rands
                 /\ chans' = chans
                 /\ serPc' = "select"
         ]_vars
    /\ [](\A id \in SerIds : errResponse[id] > 0 => ~EventExists(id))

\* a chain call failed and the serializer made the next caller's chain call
C7_Witness ==
    /\ Len(chainCalls) >= 2
    /\ errResponse[chainCalls[1]] = 1
    /\ successResponse[chainCalls[2]] # <<>>

\* the event that the event loop receives next from channel t misses its
\* validator in the store
LookupFails(ev) == ev.type # "jurySig" /\ ~HasValidator(vals, ev.bbnPubKey)

\* C8: a completion event whose validator lookup or one of whose store
\* writes fails ends the process: nothing happens after it and its request
\* gets no success reply.
C8_FatalTerminates ==
    /\ [][/\ ~halted
          /\ EventStep =>
                LET ev == reqs[lastEvent'.req]
                IN  (LookupFails(ev) \/ lastEvent'.failAt > 0) =>
                       /\ halted'
                       /\ successResponse' = successResponse
         ]_vars
    /\ [](halted /\ lastEvent.fatal => successResponse[lastEvent.req] = <<>>)

\* the process ended on a SaveRandPair failure in the middle of a range
C8_Witness ==
    /\ halted
    /\ lastEvent.type = "commitPubRand"
    /\ Len(lastEvent.saved) >= 1
    /\ Len(lastEvent.saved) < Len(reqs[lastEvent.req].privRandList)

AllExited ==
    evPc = "exited" /\ serPc = "exited" /\ juryPc = "exited" /\ valPc = "exited"

\* C9 (as stated): once app.quit is closed, every one of the four tasks
\* leaves its loop (or the whole process has exited).
C9_QuitLeadsToExit == quit ~> (halted \/ AllExited)

\* C10: a handled commit event of k >= 1 values starting at H leaves exactly
\* the records of H..H+k-1 added, each with the request's i-th values, saved
\* in increasing height order, the validator's LastCommittedHeight at
\* H+k-1, and the reply written.
C10_CommitRoundTrip ==
    [][(EventStep /\ lastEvent'.type = "commitPubRand" /\ ~lastEvent'.fatal
          /\ Len(reqs[lastEvent'.req].privRandList) >= 1) =>
          LET id == lastEvent'.req
              ev == reqs[id]
              pk == ev.bbnPubKey
              k == Len(ev.privRandList)
              range == {<<pk, ev.height + i - 1>> : i \in 1..k}
          IN  /\ DOMAIN rands' = DOMAIN rands \cup range
              /\ \A x \in DOMAIN rands \ range : rands'[x] = rands[x]
              /\ \A i \in 1..k :
                    rands'[<<pk, ev.height + i - 1>>] =
                       [SecRand |-> Bytes(PrivRand(id, i)),
                        PubRand |-> MustMarshal(PubRand(id, i))]
              /\ lastEvent'.saved = [i \in 1..k |-> ev.height + i - 1]
              /\ vals'[pk].LastCommittedHeight = ev.height + k - 1
              /\ Len(successResponse'[id]) = 1
      ]_vars

C10_Witness ==
    /\ lastEvent.type = "commitPubRand"
    /\ ~lastEvent.fatal
    /\ Len(lastEvent.saved) = MaxRandLen
    /\ successResponse[lastEvent.req] # <<>>

C12_SingleWriter ==
    [][(vals' # vals \/ rands' # rands) =>
          (EvNext /\ ~SerNext /\ ~JuryNext /\ ~ValNext)
      ]_vars

\* the request of the validator reactor went through the serializer and the
\* event loop wrote its height
C12_Witness ==
    /\ valPc = "wait"
    /\ valReq = lastEvent.req
    /\ ~lastEvent.fatal
    /\ reqs[valReq].type = "finalitySig"
    /\ vals[reqs[valReq].bbnPubKey].LastVotedHeight = reqs[valReq].height

\* the completion events emitted so far for request id: those waiting in an
\* event channel and those the event loop has taken
EventsEmitted(id) ==
    Cardinality({i \in 1..Len(evChan[reqs[id].type]) :
                    evChan[reqs[id].type][i].req = id})
    + Len(successResponse[id])
    + (IF lastEvent.req = id /\ lastEvent.fatal THEN 1 ELSE 0)

\* the chain call of request id is over and its result has been passed on
CallDone(id) == errResponse[id] + EventsEmitted(id) = 1

\* C13: the serializer works on one request at a time.  The only chain call
\* that can be open is the one of the request the serializer holds, which is
\* the newest call and has neither an error reply nor an event yet; every
\* earlier call has produced exactly one of the two, an error reply or one
\* completion event, and no request is called twice.
C13_OneRequestAtATime ==
    /\ \A i, j \in 1..Len(chainCalls) : chainCalls[i] = chainCalls[j] => i = j
    /\ serReq # 0 =>
          /\ chainCalls # <<>> /\ chainCalls[Len(chainCalls)] = serReq
          /\ errResponse[serReq] = 0 /\ EventsEmitted(serReq) = 0
    /\ \A i \in 1..Len(chainCalls) :
          chainCalls[i] # serReq => CallDone(chainCalls[i])
    /\ \A id \in SerIds : EventsEmitted(id) <= 1 - errResponse[id]

\* the second chain call is open while the event of the first one still waits
\* in its channel
C13_Witness ==
    /\ Len(chainCalls) = 2
    /\ serPc = "call"
    /\ serReq = chainCalls[2]
    /\ \E t \in SerTypes : evChan[t] # <<>> /\ evChan[t][1].req = chainCalls[1]

\* the transaction handle the chain client returned for a request
TxHashOf(id) == CHOOSE i \in 1..Len(chainCalls) : chainCalls[i] = id

\* C14: whatever other requests are in progress, a success reply of a
\* request that went through the serializer carries the transaction handle of
\* that request's own chain call, and only a request whose chain call
\* returned without error has one.
C14_ReplyCarriesOwnTxHash ==
    \A id \in SerIds :
        \A k \in 1..Len(successResponse[id]) :
            /\ \E i \in 1..Len(chainCalls) : chainCalls[i] = id
            /\ errResponse[id] = 0
            /\ successResponse[id][k] = TxHashOf(id)

\* two requests were in progress together and the one called first was
\* answered last, each with its own handle
C14_Witness ==
    /\ Len(chainCalls) = 2
    /\ successResponse[chainCalls[1]] = <<1>>
    /\ successResponse[chainCalls[2]] = <<2>>
    /\ lastEvent.req = chainCalls[1]

Registered(vs, pk) == HasValidator(vs, pk) /\ vs[pk].status = "REGISTERED"

\* C15: a validator's status becomes REGISTERED only in the step in which
\* the event loop handles a registration-completion event of that validator's
\* identity, an event whose RegisterValidator call returned without error; a
\* RegisterValidator call that fails changes no validator record.
C15_RegisteredOnlyOnCompletion ==
    [][/\ \A pk \in RegPks :
            (Registered(vals', pk) /\ ~Registered(vals, pk)) =>
                /\ EventStep
                /\ lastEvent'.type = "register"
                /\ reqs[lastEvent'.req].type = "register"
                /\ reqs[lastEvent'.req].bbnPubKey = pk
                /\ \E i \in 1..Len(chainCalls) : chainCalls[i] = lastEvent'.req
                /\ errResponse[lastEvent'.req] = 0
       /\ (serPc = "call" /\ reqs[serReq].type = "register"
             /\ errResponse'[serReq] > errResponse[serReq]) => vals' = vals
       /\ \A id \in Ids :
            (reqs[id].type = "register" /\ errResponse[id] > 0)
                => ~(EventStep /\ lastEvent'.req = id)
      ]_vars

\* one of two stored validators was registered, the other one is as created
C15_Witness ==
    /\ Registered(vals, 2)
    /\ HasValidator(vals, 1) /\ vals[1].status = "CREATED"
    /\ lastEvent.type = "register" /\ ~lastEvent.fatal

\* C16: the step that handles a jury-signature-completion event changes no
\* validator record and no randomness record and does not end the process;
\* it writes the event's transaction handle to the reply slot of the event's
\* request and to no other slot.
C16_JurySigOnlyReplies ==
    [][(EventStep /\ lastEvent'.type = "jurySig") =>
          /\ vals' = vals
          /\ rands' = rands
          /\ ~halted'
          /\ errResponse' = errResponse
          /\ successResponse' =
                [successResponse EXCEPT ![lastEvent'.req] =
                    Append(@, TxHashOf(lastEvent'.req))]
      ]_vars

\* a jury-signature event was handled while the store held a validator and
\* randomness records
C16_Witness ==
    /\ lastEvent.type = "jurySig"
    /\ successResponse[lastEvent.req] # <<>>
    /\ HasValidator(vals, 1)
    /\ rands # <<>>

\* C17: a failed fetch of the pending delegations submits no request and
\* sends the jury reactor back to its select, where the next tick is served;
\* the reactor exits only on shutdown.  In a tick with pending delegations
\* every attempt, failed or not, moves on to the next delegation: the
\* delegations left go down by one per attempt and the tick ends only with
\* the attempt for the last one.
C17_JuryReactorResilient ==
    /\ [][/\ (juryPc = "fetch" /\ juryPc' = "failed") =>
                (reqs' = reqs /\ juryReq' = 0 /\ juryLeft' = 0)
          /\ (juryPc = "failed" /\ juryPc' # "failed") =>
                (juryPc' = "select" /\ reqs' = reqs /\ juryReq' = 0)
          /\ (juryPc \in {"loop", "wait"} /\ juryPc' = "select") => juryLeft = 1
          /\ (juryPc \in {"loop", "wait"} /\ juryLeft' # juryLeft) =>
                juryLeft' = juryLeft - 1
          /\ (juryPc # "exited" /\ juryPc' = "exited") => (juryPc = "select" /\ quit)
         ]_vars
    /\ []((juryPc = "select" /\ ~halted) => ENABLED JuryTick)
    /\ [](juryPc \in {"loop", "wait"} => (juryLeft >= 1 /\ juryLeft <= juryDels))

\* of two pending delegations the attempt for the first one returned an error
\* and the request for the second one is at the serializer
C17_Witness ==
    /\ juryDels = 2
    /\ juryLeft = 1
    /\ errResponse[1] = 1
    /\ juryPc = "wait"
    /\ juryReq = 2
    /\ serPc = "call"

\* request a was submitted before request b and both have the same type
EarlierOfSameType(a, b) == a < b /\ reqs[a].type = reqs[b].type

\* C18: of two requests of one type the one submitted first has its chain
\* call first, and its completion event reaches the event loop first: when
\* the event loop takes the event of a request, every request of that type
\* submitted earlier has been called and has its answer, the error of its
\* chain call or the reply the event loop wrote for its event.
C18_PerTypeOrder ==
    /\ [](\A i \in 1..Len(chainCalls) : \A a \in SerIds :
             EarlierOfSameType(a, chainCalls[i]) =>
                \E j \in 1..(i - 1) : chainCalls[j] = a)
    /\ [][EventStep =>
             \A a \in SerIds :
                EarlierOfSameType(a, lastEvent'.req) =>
                    /\ \E j \in 1..Len(chainCalls) : chainCalls[j] = a
                    /\ errResponse[a] = 1 \/ successResponse[a] # <<>>
         ]_vars

\* two requests of one type both succeeded on the chain and the event of the
\* second one was handled after the event of the first
C18_Witness ==
    /\ Len(chainCalls) = 2
    /\ EarlierOfSameType(chainCalls[1], chainCalls[2])
    /\ successResponse[chainCalls[1]] # <<>>
    /\ lastEvent.req = chainCalls[2]
    /\ evCap = 1

\* the last handled event is a randomness commitment whose handler got past
\* the write of the validator record
CommitWroteValidator ==
    /\ lastEvent.type = "commitPubRand"
    /\ HasValidator(vals, reqs[lastEvent.req].bbnPubKey)
    /\ lastEvent.failAt # 1

\* C19 (as stated): in every state of the store, the state a fatal fault
\* leaves behind included, a LastCommittedHeight of H+k-1 written for a commit
\* of the range [H, H+k) comes with a randomness record for every height of
\* the range.
C19_CommittedRandomnessStored ==
    CommitWroteValidator =>
        LET ev == reqs[lastEvent.req]
            k == Len(ev.privRandList)
        IN  (k >= 1 /\ vals[ev.bbnPubKey].LastCommittedHeight = ev.height + k - 1)
                => \A h \in ev.height..(ev.height + k - 1) :
                      HasRandPair(rands, ev.bbnPubKey, h)

\* C20 (as stated): the LastCommittedHeight a handled commit event of k
\* values starting at H leaves in the validator record is strictly less than
\* H + k, for every k >= 0.
C20_CommittedBelowRangeEnd ==
    (CommitWroteValidator /\ ~lastEvent.fatal) =>
        LET ev == reqs[lastEvent.req]
        IN  vals[ev.bbnPubKey].LastCommittedHeight < ev.height + Len(ev.pubRandList)

====
